---- MODULE Spec2Model ----
(***************************************************************************)
(* Model of metakeule/unpack: vendor/lib/lib.go (registry, UnpackFile,     *)
(* UnpackFileWithUnpacker, mkDir/mkDirTry, removeDirs, flatten/_flatten)   *)
(* and unpack.v1/unpack.go (init, UnpackAllFiles, UnpackFilesMatching,     *)
(* unpackFilesInDir) over an explicit file system.                         *)
(*                                                                         *)
(* Spec: one caller, one call after the other.  BatchSpec: one batch call. *)
(* RegistrySpec: two callers at the registry.  ConcSpec: two UnpackFile    *)
(* calls side by side.                                                     *)
(*                                                                         *)
(* A file or directory name is a sequence of one-character strings, a path *)
(* is a sequence of names below the file system root <<>>.  The file       *)
(* system is a function from the existing paths to "dir" or to the content *)
(* of a regular file.                                                      *)
(***************************************************************************)
EXTENDS Integers, Sequences, FiniteSets, TLC

VARIABLES fs, unpacker, fr, calls, faults, batch, unpackerMX, registered

vars == <<fs, unpacker, fr, calls, faults, batch, unpackerMX, registered>>

----------------------------------------------------------------------------
(* Bounds of the model *)

\* pre-existing directories among name, name-1, ... in the parent directory
MaxTaken == 11
\* UnpackFile calls in one behaviour
MaxCalls == 2
\* environment failures (I/O errors of a system call) in one behaviour
MaxFaults == 1
\* largest value drawn for time.Now().Nanosecond()
MaxNano == 12

\* mkDirTry gives up when try reaches this value (lib.go:220)
MaxTry == 10

----------------------------------------------------------------------------
(* Strings *)

DigitChars == <<"0", "1", "2", "3", "4", "5", "6", "7", "8", "9">>

RECURSIVE Itoa(_)
\* the %d verb of fmt.Sprintf for n >= 0
Itoa(n) ==
    IF n < 10 THEN <<DigitChars[n + 1]>>
    ELSE Itoa(n \div 10) \o <<DigitChars[(n % 10) + 1]>>

UpperChars == <<"G", "Z", "I", "P", "Q">>
LowerChars == <<"g", "z", "i", "p", "q">>

ToLowerChar(c) ==
    IF \E i \in DOMAIN UpperChars : UpperChars[i] = c
    THEN LowerChars[CHOOSE i \in DOMAIN UpperChars : UpperChars[i] = c]
    ELSE c

\* strings.ToLower
ToLower(s) == [i \in DOMAIN s |-> ToLowerChar(s[i])]

\* filepath.Ext: the suffix beginning at the final dot of the name, or ""
Ext(name) ==
    IF \E i \in DOMAIN name : name[i] = "."
    THEN LET i == CHOOSE j \in DOMAIN name :
                     /\ name[j] = "."
                     /\ \A k \in DOMAIN name : name[k] = "." => k <= j
         IN  SubSeq(name, i, Len(name))
    ELSE <<>>

\* regexp QuoteMeta(ext)+"$" replaced by "": the name without its trailing ext
TrimExt(name, ext) ==
    IF Len(ext) <= Len(name)
       /\ SubSeq(name, Len(name) - Len(ext) + 1, Len(name)) = ext
    THEN SubSeq(name, 1, Len(name) - Len(ext))
    ELSE name

\* filepath.Join(dir, name): an empty element is ignored
Join(dir, name) == IF name = <<>> THEN dir ELSE Append(dir, name)

\* fmt.Sprintf(dir+"-%d", n): the text is appended to the last element of dir
Suffixed(dir, n) ==
    [dir EXCEPT ![Len(dir)] = @ \o <<"-">> \o Itoa(n)]

Parent(p) == SubSeq(p, 1, Len(p) - 1)
Base(p) == p[Len(p)]

----------------------------------------------------------------------------
(* File system *)

IsPrefix(p, q) == Len(p) <= Len(q) /\ SubSeq(q, 1, Len(p)) = p

Exists(f, p) == p \in DOMAIN f
IsDir(f, p) == p \in DOMAIN f /\ f[p] = "dir"
IsFile(f, p) == p \in DOMAIN f /\ f[p] # "dir"

\* the paths directly inside p
Entries(f, p) == {q \in DOMAIN f : Len(q) = Len(p) + 1 /\ IsPrefix(p, q)}

\* the paths at or below p
Tree(f, p) == {q \in DOMAIN f : IsPrefix(p, q)}

\* the content below p, by path relative to p
SubTree(f, p) ==
    [r \in {SubSeq(q, Len(p) + 1, Len(q)) : q \in Tree(f, p) \ {p}} |-> f[p \o r]]

Restrict(f, S) == [q \in S |-> f[q]]

\* mutant of MkdirOK: an existing directory is accepted (os.MkdirAll)
MkdirOKExisting(f, p) == p # <<>> /\ ~IsFile(f, p) /\ IsDir(f, Parent(p))

\* os.Mkdir succeeds iff the parent is a directory and nothing is at p
MkdirOK(f, p) == p # <<>> /\ ~Exists(f, p) /\ IsDir(f, Parent(p))

Mkdir(f, p) == [q \in DOMAIN f \cup {p} |-> IF q = p THEN "dir" ELSE f[q]]

\* os.Rename (rename(2)): a file replaces a file, a directory replaces an
\* empty directory, and a directory cannot move below itself
RenameOK(f, old, new) ==
    /\ Exists(f, old)
    /\ new # <<>>
    /\ IsDir(f, Parent(new))
    /\ ~(old # new /\ IsPrefix(old, new))
    /\ (Exists(f, new) /\ new # old) =>
          IF IsDir(f, old)
          THEN IsDir(f, new) /\ Entries(f, new) = {}
          ELSE ~IsDir(f, new)

\* mutant of Rename: the old path keeps its content (a copy, not a move)
RenameCopies(f, old, new) ==
    IF old = new THEN f
    ELSE LET moved == Tree(f, old)
             kept == DOMAIN f \ Tree(f, new)
             target(q) == new \o SubSeq(q, Len(old) + 1, Len(q))
         IN  [q \in kept \cup {target(m) : m \in moved} |->
                 IF q \in kept THEN f[q]
                 ELSE f[old \o SubSeq(q, Len(new) + 1, Len(q))]]

Rename(f, old, new) ==
    IF old = new THEN f
    ELSE LET moved == Tree(f, old)
             kept == DOMAIN f \ (moved \cup Tree(f, new))
             target(q) == new \o SubSeq(q, Len(old) + 1, Len(q))
         IN  [q \in kept \cup {target(m) : m \in moved} |->
                 IF q \in kept THEN f[q]
                 ELSE f[old \o SubSeq(q, Len(new) + 1, Len(q))]]

\* os.Remove: unlink of a file, rmdir of an empty directory
RemoveOK(f, p) ==
    /\ p # <<>>
    /\ Exists(f, p)
    /\ IsDir(f, p) => Entries(f, p) = {}

Remove(f, p) == Restrict(f, DOMAIN f \ {p})

\* os.RemoveAll: p and everything below it
RemoveAll(f, p) == Restrict(f, DOMAIN f \ Tree(f, p))

----------------------------------------------------------------------------
(* Names, paths and inputs *)

\* the containing directory of the archives
D == << <<"d">> >>

FZip == <<"f", ".", "z", "i", "p">>
FGZ == <<"f", ".", "G", "Z">>
FQ == <<"f", ".", "q">>
FNoExt == <<"f">>

\* the file names UnpackFile is called with
FileNames == {FZip, FGZ, FQ, FNoExt}

\* the base name all of them derive
FBase == <<"f">>

\* the k-th directory name the allocator derives from FBase
Candidate(k) == IF k = 0 THEN Join(D, FBase) ELSE Suffixed(Join(D, FBase), k)

MACOSX == <<"_", "M">>
DotGit == <<".", "g">>

\* the junk directory lists of RemoveDirectories
RmDirChoices == {<<>>, <<MACOSX, DotGit>>}

\* the values time.Now().Nanosecond() is drawn from
NanoChoices == {1, MaxNano}

PlaceHolder == <<"[", "F", "I", "L", "E", "]">>
Gzip == <<"g", "z", "i", "p">>

\* the registry after init() of unpack.v1
DefaultUnpackers ==
    (<<".", "t", "g", "z">> :> << <<"t", "a", "r">>, <<"-", "x", "z", "f">>, PlaceHolder >>)
    @@ (<<".", "t", "a", "r">> :> << <<"t", "a", "r">>, <<"-", "x", "f">>, PlaceHolder >>)
    @@ (<<".", "z", "i", "p">> :> << <<"u", "n", "z", "i", "p">>, PlaceHolder >>)
    @@ (<<".", "r", "a", "r">> :> << <<"u", "n", "r", "a", "r">>, <<"x">>, PlaceHolder >>)
    @@ (<<".", "7", "z">> :> << <<"7", "z">>, <<"x">>, PlaceHolder >>)
    @@ (<<".", "g", "z">> :> << Gzip, <<"-", "d">>, PlaceHolder >>)

\* extensions and command templates RegisterUnpacker is called with
RegExts == {<<>>, <<"q">>, <<".", "q">>, <<".", "Q">>, <<".", "Z", "I", "P">>}
RegCmds == {<< <<"x">>, PlaceHolder >>, << <<"x">> >>}

\* unpacker[ext]: a missing key of a Go map reads as the empty string
Lookup(u, ext) == IF ext \in DOMAIN u THEN u[ext] ELSE <<>>

\* unpackerValidator.MatchString(cmd)
HasPlaceHolder(cmd) == \E i \in DOMAIN cmd : cmd[i] = PlaceHolder

\* strings.Replace(unpacker, "[FILE]", filename, -1)
Substitute(cmd, filename) ==
    [i \in DOMAIN cmd |-> IF cmd[i] = PlaceHolder THEN filename ELSE cmd[i]]

----------------------------------------------------------------------------
(* Errors: the kind of the Go error value and the path or text it carries *)

Nil == [kind |-> "nil", arg |-> <<>>]
Err(k, a) == [kind |-> k, arg |-> a]

----------------------------------------------------------------------------
(* What the external command leaves in its working directory, by relative  *)
(* path.  An entry directly inside the working directory never has the     *)
(* name of the archive, which is there while the command runs.             *)

NA == <<"a">>
NB == <<"b">>
NInner == <<"i">>

LayEmpty == << >> :> "dir"
LayFile == << NA >> :> "a"
LayInner == (<< NInner >> :> "dir") @@ (<< NInner, NA >> :> "a") @@ (<< NInner, NB >> :> "b")
LayInnerEmpty == << NInner >> :> "dir"
LayInnerFile == (<< NInner >> :> "dir") @@ (<< NInner, NA >> :> "a") @@ (<< NA >> :> "a2")
LayInnerJunk == (<< NInner >> :> "dir") @@ (<< NInner, NA >> :> "a") @@ (<< MACOSX >> :> "dir")
                @@ (<< MACOSX, NB >> :> "b")
LayWrappedJunk == (<< NInner >> :> "dir") @@ (<< NInner, MACOSX >> :> "dir")
                  @@ (<< NInner, MACOSX, NB >> :> "b")
LayInnerInner == (<< NInner >> :> "dir") @@ (<< NInner, NInner >> :> "dir")
                 @@ (<< NInner, NInner, NA >> :> "a")
LayInnerArchive(filename) ==
    (<< NInner >> :> "dir") @@ (<< NInner, filename >> :> "copy") @@ (<< NInner, NA >> :> "a")

Layouts(filename) ==
    {LayEmpty, LayFile, LayInner, LayInnerEmpty, LayInnerFile, LayInnerJunk, LayWrappedJunk,
     LayInnerInner, LayInnerArchive(filename)}

\* the paths a layout adds below dir
Extract(f, dir, lay) ==
    LET new == {dir \o r : r \in DOMAIN lay \ {<< >>}}
    IN  [q \in DOMAIN f \cup new |->
            IF q \in new THEN lay[SubSeq(q, Len(dir) + 1, Len(q))] ELSE f[q]]

\* gzip -d replaces the archive by the unpacked file; tar, unzip, unrar and
\* 7z leave it; a command registered later may do either
ConsumeChoices(cmd) ==
    IF cmd[1] = Gzip THEN {TRUE}
    ELSE IF cmd \in {DefaultUnpackers[e] : e \in DOMAIN DefaultUnpackers} THEN {FALSE}
    ELSE BOOLEAN

----------------------------------------------------------------------------
(* State *)

\* the callers; Spec runs one of them, one call after the other
Procs == {1, 2}
SeqProcs == {1}

\* the steps of UnpackFileWithUnpacker, in program order
StepOrder == <<"allocate", "relocate", "run", "delete", "junk", "flatten">>

NoCall == [op |-> "none", filename |-> <<>>, err |-> Nil, createdDir |-> <<>>]

\* the frame of a caller outside any call; last is the call it made before
IdleFrame(last) ==
    [pc |-> "idle", op |-> "none", filename |-> <<>>, dir |-> <<>>, remove |-> FALSE,
     rmDirs |-> <<>>, cmd |-> <<>>, ext |-> <<>>, base |-> <<>>, try |-> -1,
     createdDir |-> <<>>, i |-> 1, d |-> <<>>, sub |-> <<>>, err |-> Nil,
     trace |-> <<>>, tried |-> <<>>, fs0 |-> << >> :> "dir", fsF |-> << >> :> "dir",
     log |-> <<>>, has |-> FALSE, raced |-> FALSE, last |-> last]

\* the batch driver outside any call of UnpackAllFiles or UnpackFilesMatching
IdleBatch ==
    [pc |-> "idle", dir |-> <<>>, matching |-> FALSE, pattern |-> <<>>, remove |-> FALSE,
     rmDirs |-> <<>>, finfos |-> <<>>, i |-> 1, errs |-> << >>, called |-> <<>>,
     fs0 |-> << >> :> "dir", nil |-> TRUE]

\* the containing directory before any call: the archives, and a run of
\* taken directory names f, f-1, ... (from lo up to hi - 1), each empty or not
InitFS(lo, hi, full) ==
    LET taken == {Candidate(k) : k \in lo .. (hi - 1)}
        inner == IF full THEN {Join(t, NA) : t \in taken} ELSE {}
        files == (Join(D, FZip) :> "zip") @@ (Join(D, FGZ) :> "gz") @@ (Join(D, FQ) :> "q")
    IN  [q \in {<< >>, D} \cup taken \cup inner \cup DOMAIN files |->
            IF q \in DOMAIN files THEN files[q]
            ELSE IF q \in inner THEN "old"
            ELSE "dir"]

\* how far the run of taken names reaches
TakenChoices == {0, 2, MaxTaken - 1, MaxTaken}

Init ==
    /\ \E lo \in {0, 1} : \E hi \in TakenChoices : \E full \in BOOLEAN :
          fs = InitFS(lo, hi, full)
    /\ unpacker = DefaultUnpackers
    /\ fr = [p \in Procs |-> IdleFrame(NoCall)]
    /\ calls = 0
    /\ faults = 0
    /\ batch = IdleBatch
    /\ unpackerMX = 0
    /\ registered = [e \in DOMAIN DefaultUnpackers |-> 1]

\* a system call that would succeed fails only by an environment failure
Fails(wouldSucceed) ==
    IF wouldSucceed
    THEN faults < MaxFaults /\ faults' = faults + 1
    ELSE UNCHANGED faults

Goto(p, f) == fr' = [fr EXCEPT ![p] = f]

\* logError and logInfo: a line of the log, by level
logError(f, err) == [f EXCEPT !.log = Append(@, [level |-> "error", msg |-> err])]
logInfo(f, kind, arg) == [f EXCEPT !.log = Append(@, [level |-> "info", msg |-> Err(kind, arg)])]

\* return err from the call; every return of an error by UnpackFile and by
\* UnpackFileWithUnpacker comes after logError(err)
Done(f, err) ==
    [(IF err = Nil THEN f ELSE logError(f, err)) EXCEPT !.pc = "done", !.err = err]

\* history: a step of UnpackFileWithUnpacker begins; it fails with err
Begin(f, label) == [f EXCEPT !.trace = Append(@, [step |-> label, err |-> Nil])]
Failed(f, err) == [f EXCEPT !.trace[Len(f.trace)].err = err]

\* history: an attempt of mkDirTry at path
Tried(f, path, ok) == [f EXCEPT !.tried = Append(@, [path |-> path, ok |-> ok])]

----------------------------------------------------------------------------
(* Registry: RegisterUnpacker *)

\* mutant of RegisterResult: the existing entry is looked up by ext as given
RegisterResultCaseSensitive(u, ext, cmd) ==
    IF ext = <<>> THEN Err("InvalidExtension", << ext >>)
    ELSE IF ext[1] # "." THEN Err("InvalidExtension", << ext >>)
    ELSE IF ~HasPlaceHolder(cmd) THEN Err("MissingPlaceholder", cmd)
    ELSE IF ext \in DOMAIN u THEN Err("UnpackerRegisteredError", << ToLower(ext) >>)
    ELSE Nil

\* the error RegisterUnpacker returns, or Nil
RegisterResult(u, ext, cmd) ==
    IF ext = <<>> THEN Err("InvalidExtension", << ext >>)
    ELSE IF ext[1] # "." THEN Err("InvalidExtension", << ext >>)
    ELSE IF ~HasPlaceHolder(cmd) THEN Err("MissingPlaceholder", cmd)
    ELSE IF ToLower(ext) \in DOMAIN u THEN Err("UnpackerRegisteredError", << ToLower(ext) >>)
    ELSE Nil

\* mutant of Insert: the entry is stored under ext as given
InsertKeepsCase(u, ext, cmd) ==
    [e \in DOMAIN u \cup {ext} |-> IF e = ext THEN cmd ELSE u[e]]

\* unpacker[strings.ToLower(ext)] = cmd
Insert(u, ext, cmd) ==
    [e \in DOMAIN u \cup {ToLower(ext)} |-> IF e = ToLower(ext) THEN cmd ELSE u[e]]

\* history: one more successful registration of the case-folded ext
Count(r, ext) ==
    [e \in DOMAIN r \cup {ToLower(ext)} |->
        IF e = ToLower(ext) THEN (IF e \in DOMAIN r THEN r[e] + 1 ELSE 1) ELSE r[e]]

\* a call of RegisterUnpacker no other call runs beside: the mutex is free
\* when it begins and when it has returned
RegisterUnpacker(p) ==
    /\ fr[p].pc = "idle"
    /\ unpackerMX = 0
    /\ \E ext \in RegExts, cmd \in RegCmds :
          LET err == RegisterResult(unpacker, ext, cmd)
          IN  /\ unpacker' = IF err = Nil THEN Insert(unpacker, ext, cmd) ELSE unpacker
              /\ registered' = IF err = Nil THEN Count(registered, ext) ELSE registered
              /\ Goto(p, [IdleFrame(fr[p].last) EXCEPT
                             !.pc = "done", !.op = "register", !.ext = ext,
                             !.cmd = cmd, !.err = err, !.fs0 = fs])
    /\ UNCHANGED <<fs, calls, faults, batch, unpackerMX>>

----------------------------------------------------------------------------
(* config.UnpackFile and lib.UnpackFile *)

\* the first call names any file, a later call names the file of the call
\* before it again
CallNames(last) == IF last.op = "none" THEN FileNames ELSE {last.filename}

Call(p) ==
    /\ fr[p].pc = "idle"
    /\ calls < MaxCalls
    /\ calls' = calls + 1
    /\ \E filename \in CallNames(fr[p].last), remove \in BOOLEAN, rmDirs \in RmDirChoices :
          Goto(p, [IdleFrame(fr[p].last) EXCEPT
                      !.pc = "stat", !.op = "unpack", !.filename = filename, !.dir = D,
                      !.remove = remove, !.rmDirs = rmDirs, !.fs0 = fs])
    /\ UNCHANGED <<fs, unpacker, faults, batch, unpackerMX, registered>>

\* mutant of UnpackFileCheck: a missing command is not an error
UnpackFileCheckNoLookup(f, u, filename, dir) ==
    LET path == Join(dir, filename)
    IN  IF ~Exists(f, path) THEN Err("NotExist", path)
        ELSE IF IsDir(f, path) THEN Err("IsDirectory", << filename >>)
        ELSE IF Ext(filename) = <<>> THEN Err("NoExtensionError", path)
        ELSE Nil

\* the error UnpackFile returns before it touches anything, or Nil
UnpackFileCheck(f, u, filename, dir) ==
    LET path == Join(dir, filename)
        ext == Ext(filename)
    IN  IF ~Exists(f, path) THEN Err("NotExist", path)
        ELSE IF IsDir(f, path) THEN Err("IsDirectory", << filename >>)
        ELSE IF ext = <<>> THEN Err("NoExtensionError", path)
        ELSE IF Len(Lookup(u, ToLower(ext))) = 0
             THEN Err("UnknownPackerError", << ToLower(ext) >>)
        ELSE Nil

\* the runtime is inside the assignment unpacker[...] = cmd of some caller
Mutating == \E q \in Procs : fr[q].pc = "reg_write"

\* what a read of the map without the mutex can find: the registry, and
\* during an assignment also the registry as it will be after it
Views ==
    IF Mutating
    THEN LET w == CHOOSE q \in Procs : fr[q].pc = "reg_write"
         IN  {unpacker, Insert(unpacker, fr[w].ext, fr[w].cmd)}
    ELSE {unpacker}

\* "fatal error: concurrent map read and map write" ends the process
Fatal == [q \in Procs |-> [fr[q] EXCEPT !.pc = "fatal"]]

\* UnpackFile up to the call of UnpackFileWithUnpacker; the map is read
\* without the mutex (lib.go:135)
UnpackFile(p) ==
    LET f == fr[p]
    IN  /\ f.pc = "stat"
        /\ \E u \in Views :
              LET err == UnpackFileCheck(fs, u, f.filename, f.dir)
                  looked == err.kind \in {"nil", "UnknownPackerError"}
                  g == [f EXCEPT !.raced = Mutating /\ looked]
              IN  \/ IF err # Nil
                     THEN Goto(p, Done(g, err))
                     ELSE Goto(p, [g EXCEPT !.pc = "mkdir",
                                            !.cmd = Lookup(u, ToLower(Ext(f.filename)))])
                  \/ /\ g.raced
                     /\ fr' = Fatal
        /\ UNCHANGED <<fs, unpacker, calls, faults, batch, unpackerMX, registered>>

----------------------------------------------------------------------------
(* Directory allocator: mkDir and mkDirTry *)

\* mutant of MkDirBase: the extension is not cut off
MkDirBaseKeepsExt(filename, parentDir) ==
    Join(parentDir, filename)

\* the directory mkDir hands to mkDirTry
MkDirBase(filename, parentDir) ==
    Join(parentDir, TrimExt(filename, Ext(filename)))

MkDir(p) ==
    LET f == Begin(fr[p], "allocate")
        noExt == Err("NoExtensionError", Join(f.dir, f.filename))
    IN  /\ fr[p].pc = "mkdir"
        /\ IF Ext(f.filename) = <<>>
           THEN Goto(p, Done(Failed(f, noExt), noExt))
           ELSE Goto(p, [f EXCEPT !.pc = "mkdirtry", !.try = -1,
                                  !.base = MkDirBase(f.filename, f.dir)])
        /\ UNCHANGED <<fs, unpacker, calls, faults, batch, unpackerMX, registered>>

\* the path the attempt numbered try (0, 1, ...) creates
TryDir(dir, try) == IF try > 0 THEN Suffixed(dir, try) ELSE dir

\* mutant of TriesExhausted: one attempt more
TriesExhaustedLate(try) == try = MaxTry + 1

\* whether mkDirTry, entered with this try, gives up
TriesExhausted(try) == try = MaxTry

\* one activation of mkDirTry: give up, or one os.Mkdir
MkDirTry(p) ==
    LET f == fr[p]
        try == f.try + 1
        createddir == TryDir(f.base, try)
        exhausted == Err("MkDirError", f.base)
    IN  /\ f.pc = "mkdirtry"
        /\ IF TriesExhausted(f.try)
           THEN /\ Goto(p, Done(Failed(f, exhausted), exhausted))
                /\ UNCHANGED <<fs, faults>>
           ELSE \/ /\ MkdirOK(fs, createddir)
                   /\ fs' = Mkdir(fs, createddir)
                   /\ Goto(p, [Tried(f, createddir, TRUE) EXCEPT
                                   !.pc = "rename", !.try = try,
                                   !.createdDir = createddir])
                   /\ UNCHANGED faults
                \/ /\ Fails(MkdirOK(fs, createddir))
                   /\ Goto(p, [Tried(f, createddir, FALSE) EXCEPT !.try = try])
                   /\ UNCHANGED fs
        /\ UNCHANGED <<unpacker, calls, batch, unpackerMX, registered>>

----------------------------------------------------------------------------
(* Extraction orchestrator: UnpackFileWithUnpacker *)

\* os.Rename of the archive into the created directory
Relocate(p) ==
    LET f == Begin(fr[p], "relocate")
        old == Join(f.dir, f.filename)
        new == Join(f.createdDir, f.filename)
        err == Err("LinkError", old)
    IN  /\ fr[p].pc = "rename"
        /\ \/ /\ RenameOK(fs, old, new)
              /\ fs' = Rename(fs, old, new)
              /\ Goto(p, [f EXCEPT !.pc = "run"])
              /\ UNCHANGED faults
           \/ /\ Fails(RenameOK(fs, old, new))
              /\ Goto(p, Done(Failed(f, err), err))
              /\ UNCHANGED fs
        /\ UNCHANGED <<unpacker, calls, batch, unpackerMX, registered>>

\* mutant of AfterRun: the error of the command is not looked at
AfterRunIgnoresErr(f, err) ==
    IF f.remove THEN [f EXCEPT !.pc = "remove"]
    ELSE IF Len(f.rmDirs) > 0 THEN [f EXCEPT !.pc = "rmdirs", !.i = 1]
    ELSE [f EXCEPT !.pc = "flatten"]

\* mutant of AfterRun: the archive is removed whether or not remove is set
AfterRunAlwaysRemoves(f, err) ==
    IF err # Nil THEN Done(f, err)
    ELSE [f EXCEPT !.pc = "remove"]

\* where UnpackFileWithUnpacker goes after the command returned err
AfterRun(f, err) ==
    IF err # Nil THEN Done(f, err)
    ELSE IF f.remove THEN [f EXCEPT !.pc = "remove"]
    ELSE IF Len(f.rmDirs) > 0 THEN [f EXCEPT !.pc = "rmdirs", !.i = 1]
    ELSE [f EXCEPT !.pc = "flatten"]

\* runPackerCMD: the command runs in the created directory; a failing
\* command leaves the archive and may leave a part of the content
RunPackerCMD(p) ==
    LET f == Begin(fr[p], "run")
        command == Substitute(f.cmd, f.filename)
        archive == Join(f.createdDir, f.filename)
        err == Err("RunError", command)
    IN  /\ fr[p].pc = "run"
        /\ \/ \E lay \in {LayEmpty, LayFile, LayInnerEmpty} :
                 /\ fs' = Extract(fs, f.createdDir, lay)
                 /\ Goto(p, AfterRun(Failed(f, err), err))
           \/ \E lay \in Layouts(f.filename), consume \in ConsumeChoices(f.cmd) :
                 /\ fs' = IF consume
                          THEN Remove(Extract(fs, f.createdDir, lay), archive)
                          ELSE Extract(fs, f.createdDir, lay)
                 /\ Goto(p, AfterRun(f, Nil))
        /\ UNCHANGED <<unpacker, calls, faults, batch, unpackerMX, registered>>

\* where UnpackFileWithUnpacker goes after os.Remove of the archive
AfterRemove(f, err) ==
    IF err # Nil THEN Done(f, err)
    ELSE IF Len(f.rmDirs) > 0 THEN [f EXCEPT !.pc = "rmdirs", !.i = 1]
    ELSE [f EXCEPT !.pc = "flatten"]

\* if remove: os.Remove of the relocated archive
RemoveArchive(p) ==
    LET f == Begin(fr[p], "delete")
        archive == Join(f.createdDir, f.filename)
        err == Err("PathError", archive)
    IN  /\ fr[p].pc = "remove"
        /\ \/ /\ RemoveOK(fs, archive)
              /\ fs' = Remove(fs, archive)
              /\ Goto(p, AfterRemove(f, Nil))
              /\ UNCHANGED faults
           \/ /\ Fails(RemoveOK(fs, archive))
              /\ Goto(p, AfterRemove(Failed(f, err), err))
              /\ UNCHANGED fs
        /\ UNCHANGED <<unpacker, calls, batch, unpackerMX, registered>>

\* removeDirs, one name of subdirs per step: "removing" is logged before
\* os.RemoveAll, whose result is dropped
RemoveDirs(p) ==
    LET path == Join(fr[p].createdDir, fr[p].rmDirs[fr[p].i])
        f == IF IsDir(fs, path) THEN logInfo(Begin(fr[p], "junk"), "removing", path)
             ELSE Begin(fr[p], "junk")
        next(g) == IF g.i = Len(g.rmDirs) THEN [g EXCEPT !.pc = "flatten"]
                   ELSE [g EXCEPT !.i = @ + 1]
    IN  /\ fr[p].pc = "rmdirs"
        /\ IF IsDir(fs, path)
           THEN \/ /\ fs' = RemoveAll(fs, path)
                   /\ Goto(p, next(f))
                   /\ UNCHANGED faults
                \/ /\ Fails(TRUE)
                   /\ Goto(p, next(Failed(f, Err("PathError", path))))
                   /\ UNCHANGED fs
           ELSE /\ Goto(p, next(f))
                /\ UNCHANGED <<fs, faults>>
        /\ UNCHANGED <<unpacker, calls, batch, unpackerMX, registered>>

----------------------------------------------------------------------------
(* Flattening engine: flatten and _flatten *)

\* mutant of getDirContentsWithoutArchivFile: the archive is not left out
getDirContentsAll(f, dir, archivFile) == Entries(f, dir)

\* the entries of dir that are directories or are not named archivFile
getDirContentsWithoutArchivFile(f, dir, archivFile) ==
    {q \in Entries(f, dir) : IsDir(f, q) \/ Base(q) # archivFile}

\* mutant of FlattenTriggers: any directory among the entries triggers
FlattenTriggersAnyDir(f, archivFile, dir) ==
    \E q \in getDirContentsWithoutArchivFile(f, dir, archivFile) : IsDir(f, q)

\* len(finfos) == 1 && finfos[0].IsDir()
FlattenTriggers(f, archivFile, dir) ==
    LET finfos == getDirContentsWithoutArchivFile(f, dir, archivFile)
    IN  Cardinality(finfos) = 1 /\ \A q \in finfos : IsDir(f, q)

\* flatten up to the call of _flatten, which reads the clock first
Flatten(p) ==
    LET f == [Begin(fr[p], "flatten") EXCEPT !.fsF = fs]
        dir == f.createdDir
        finfos == getDirContentsWithoutArchivFile(fs, dir, f.filename)
        err == Err("PathError", dir)
    IN  /\ fr[p].pc = "flatten"
        /\ IF ~IsDir(fs, dir)
           THEN Goto(p, Done(Failed(f, err), err))
           ELSE IF FlattenTriggers(fs, f.filename, dir)
           THEN \E nano \in NanoChoices :
                   Goto(p, [f EXCEPT !.pc = "fl1",
                                     !.sub = Base(CHOOSE q \in finfos : TRUE),
                                     !.d = Suffixed(dir, nano)])
           ELSE Goto(p, Done(f, Nil))
        /\ UNCHANGED <<fs, unpacker, calls, faults, batch, unpackerMX, registered>>

\* phase 1: os.Rename(dir, d)
Flatten1(p) ==
    LET f == fr[p]
        err == Err("LinkError", f.createdDir)
    IN  /\ f.pc = "fl1"
        /\ \/ /\ RenameOK(fs, f.createdDir, f.d)
              /\ fs' = Rename(fs, f.createdDir, f.d)
              /\ Goto(p, [f EXCEPT !.pc = "fl2"])
              /\ UNCHANGED faults
           \/ /\ Fails(RenameOK(fs, f.createdDir, f.d))
              /\ Goto(p, Done(Failed(f, err), err))
              /\ UNCHANGED fs
        /\ UNCHANGED <<unpacker, calls, batch, unpackerMX, registered>>

\* phase 2: os.Rename(filepath.Join(d, sub), dir)
Flatten2(p) ==
    LET f == fr[p]
        old == Join(f.d, f.sub)
        err == Err("LinkError", old)
    IN  /\ f.pc = "fl2"
        /\ \/ /\ RenameOK(fs, old, f.createdDir)
              /\ fs' = Rename(fs, old, f.createdDir)
              /\ Goto(p, [f EXCEPT !.pc = "fl3"])
              /\ UNCHANGED faults
           \/ /\ Fails(RenameOK(fs, old, f.createdDir))
              /\ Goto(p, Done(Failed(f, err), err))
              /\ UNCHANGED fs
        /\ UNCHANGED <<unpacker, calls, batch, unpackerMX, registered>>

\* phase 3: the archive, when it is a file in d, moves to dir
Flatten3(p) ==
    LET f == fr[p]
        old == Join(f.d, f.filename)
        new == Join(f.createdDir, f.filename)
        err == Err("LinkError", old)
    IN  /\ f.pc = "fl3"
        /\ IF IsFile(fs, old)
           THEN \/ /\ RenameOK(fs, old, new)
                   /\ fs' = Rename(fs, old, new)
                   /\ Goto(p, [f EXCEPT !.pc = "fl4"])
                   /\ UNCHANGED faults
                \/ /\ Fails(RenameOK(fs, old, new))
                   /\ Goto(p, Done(Failed(f, err), err))
                   /\ UNCHANGED fs
           ELSE /\ Goto(p, [f EXCEPT !.pc = "fl4"])
                /\ UNCHANGED <<fs, faults>>
        /\ UNCHANGED <<unpacker, calls, batch, unpackerMX, registered>>

\* mutant of Flatten4: the temporary directory is not removed
Flatten4KeepsTemp(p) ==
    /\ fr[p].pc = "fl4"
    /\ Goto(p, Done(fr[p], Nil))
    /\ UNCHANGED <<fs, unpacker, calls, faults, batch, unpackerMX, registered>>

\* phase 4: os.Remove(d), whose error is the result of flatten
Flatten4(p) ==
    LET f == fr[p]
        err == Err("PathError", f.d)
    IN  /\ f.pc = "fl4"
        /\ \/ /\ RemoveOK(fs, f.d)
              /\ fs' = Remove(fs, f.d)
              /\ Goto(p, Done(f, Nil))
              /\ UNCHANGED faults
           \/ /\ Fails(RemoveOK(fs, f.d))
              /\ Goto(p, Done(Failed(f, err), err))
              /\ UNCHANGED fs
        /\ UNCHANGED <<unpacker, calls, batch, unpackerMX, registered>>

\* the call returns to its caller
Return(p) ==
    /\ fr[p].pc = "done"
    /\ Goto(p, IdleFrame(IF fr[p].op = "unpack"
                          THEN [op |-> fr[p].op, filename |-> fr[p].filename,
                                err |-> fr[p].err, createdDir |-> fr[p].createdDir]
                          ELSE fr[p].last))
    /\ UNCHANGED <<fs, unpacker, calls, faults, batch, unpackerMX, registered>>

----------------------------------------------------------------------------
(* Specification: one caller, one call after the other *)

Next ==
    \E p \in SeqProcs :
        \/ RegisterUnpacker(p)
        \/ Call(p)
        \/ UnpackFile(p)
        \/ MkDir(p)
        \/ MkDirTry(p)
        \/ Relocate(p)
        \/ RunPackerCMD(p)
        \/ RemoveArchive(p)
        \/ RemoveDirs(p)
        \/ Flatten(p)
        \/ Flatten1(p)
        \/ Flatten2(p)
        \/ Flatten3(p)
        \/ Flatten4(p)
        \/ Return(p)

Spec == Init /\ [][Next]_vars

----------------------------------------------------------------------------
(* Batch driver: UnpackAllFiles, UnpackFilesMatching and unpackFilesInDir  *)

\* the characters of file names, in byte order
CharOrder ==
    <<"-", ".", "0", "1", "2", "3", "4", "5", "6", "7", "8", "9", "G", "I", "P", "Q", "Z",
      "_", "a", "b", "d", "f", "g", "i", "n", "p", "q", "x", "z">>

Rank(c) == CHOOSE k \in DOMAIN CharOrder : CharOrder[k] = c

RECURSIVE NameLess(_, _)
\* a < b for file names, as Go compares strings
NameLess(a, b) ==
    IF a = <<>> THEN b # <<>>
    ELSE IF b = <<>> THEN FALSE
    ELSE IF a[1] = b[1] THEN NameLess(Tail(a), Tail(b))
    ELSE Rank(a[1]) < Rank(b[1])

RECURSIVE SortNames(_)
SortNames(S) ==
    IF S = {} THEN <<>>
    ELSE LET m == CHOOSE x \in S : \A y \in S \ {x} : NameLess(x, y)
         IN  <<m>> \o SortNames(S \ {m})

\* ioutil.ReadDir: the entries directly inside dir, sorted by file name
ReadDir(f, dir) ==
    LET names == SortNames({Base(q) : q \in Entries(f, dir)})
    IN  [k \in DOMAIN names |->
            [name |-> names[k], isDir |-> IsDir(f, Join(dir, names[k]))]]

\* the directories the batch functions are called with: D and a missing one
NoDir == << <<"n">> >>
BatchDirs == {D, NoDir}

\* the patterns of UnpackFilesMatching: literal text, or an unclosed group
Patterns == {<<"(">>, <<"f">>, <<"z", "i", "p">>}

\* regexp.Compile succeeds
PatternCompiles(pattern) == \A k \in DOMAIN pattern : pattern[k] # "("

\* r.MatchString(fname) for a literal pattern
MatchString(pattern, fname) ==
    \E k \in 1 .. (Len(fname) - Len(pattern) + 1) :
        SubSeq(fname, k, k + Len(pattern) - 1) = pattern

\* lib.HasUnpacker
HasUnpacker(u, ext) == ToLower(ext) \in DOMAIN u

fileHasUnpacker(u, file) == HasUnpacker(u, Ext(file))

\* the callback of unpackFilesInDir
Callback(b, u, fname) ==
    IF b.matching THEN MatchString(b.pattern, fname) ELSE fileHasUnpacker(u, fname)

\* errs[key] = err
SetErr(errs, key, err) ==
    [q \in DOMAIN errs \cup {key} |-> IF q = key THEN err ELSE errs[q]]

\* unpackFilesInDir up to its loop: a directory that cannot be listed ends
\* the call with the error under the key dir
ListDir(b, f) ==
    IF ~IsDir(f, b.dir)
    THEN [b EXCEPT !.pc = "done", !.nil = FALSE,
                   !.errs = SetErr(@, b.dir, Err("NotExist", b.dir))]
    ELSE [b EXCEPT !.pc = "loop", !.i = 1, !.finfos = ReadDir(f, b.dir)]

UnpackAllFiles(p) ==
    /\ batch.pc = "idle"
    /\ fr[p].pc = "idle"
    /\ \E dir \in BatchDirs, remove \in BOOLEAN, rmDirs \in RmDirChoices :
          batch' = ListDir([IdleBatch EXCEPT !.dir = dir, !.remove = remove,
                                             !.rmDirs = rmDirs, !.fs0 = fs], fs)
    /\ UNCHANGED <<fs, unpacker, fr, calls, faults, unpackerMX, registered>>

\* a pattern that does not compile ends the call with the error under the
\* key pattern
UnpackFilesMatching(p) ==
    /\ batch.pc = "idle"
    /\ fr[p].pc = "idle"
    /\ \E dir \in BatchDirs, pattern \in Patterns, remove \in BOOLEAN, rmDirs \in RmDirChoices :
          LET b == [IdleBatch EXCEPT !.dir = dir, !.matching = TRUE, !.pattern = pattern,
                                     !.remove = remove, !.rmDirs = rmDirs, !.fs0 = fs]
          IN  batch' = IF PatternCompiles(pattern) THEN ListDir(b, fs)
                       ELSE [b EXCEPT !.pc = "done", !.nil = FALSE,
                                      !.errs = SetErr(@, << pattern >>,
                                                      Err("SyntaxError", pattern))]
    /\ UNCHANGED <<fs, unpacker, fr, calls, faults, unpackerMX, registered>>

\* one entry of the listing: a file that passes the callback is handed to
\* c.UnpackFile, anything else is skipped
unpackFilesInDirLoop(p) ==
    LET b == batch
        finfo == b.finfos[b.i]
    IN  /\ b.pc = "loop"
        /\ fr[p].pc = "idle"
        /\ b.i <= Len(b.finfos)
        /\ IF ~finfo.isDir /\ Callback(b, unpacker, finfo.name)
           THEN /\ batch' = [b EXCEPT !.pc = "wait",
                                      !.called = Append(@, [name |-> finfo.name, err |-> Nil])]
                /\ Goto(p, [IdleFrame(fr[p].last) EXCEPT
                               !.pc = "stat", !.op = "unpack", !.filename = finfo.name,
                               !.dir = b.dir, !.remove = b.remove, !.rmDirs = b.rmDirs,
                               !.fs0 = fs])
           ELSE /\ batch' = [b EXCEPT !.i = @ + 1]
                /\ UNCHANGED fr
        /\ UNCHANGED <<fs, unpacker, calls, faults, unpackerMX, registered>>

\* mutant of AfterUnpackFile: the first error ends the loop
AfterUnpackFileStops(b, fErr) ==
    IF fErr # Nil
    THEN [b EXCEPT !.pc = "loop", !.i = Len(b.finfos) + 1,
                   !.errs = SetErr(@, Join(b.dir, b.finfos[b.i].name), fErr)]
    ELSE [b EXCEPT !.pc = "loop", !.i = @ + 1]

\* the loop body after c.UnpackFile returned fErr
AfterUnpackFile(b, fErr) ==
    IF fErr # Nil
    THEN [b EXCEPT !.pc = "loop", !.i = @ + 1,
                   !.errs = SetErr(@, Join(b.dir, b.finfos[b.i].name), fErr)]
    ELSE [b EXCEPT !.pc = "loop", !.i = @ + 1]

unpackFilesInDirCollect(p) ==
    /\ batch.pc = "wait"
    /\ fr[p].pc = "done"
    /\ batch' = [AfterUnpackFile(batch, fr[p].err) EXCEPT
                    !.called[Len(batch.called)].err = fr[p].err]
    /\ Goto(p, IdleFrame(fr[p].last))
    /\ UNCHANGED <<fs, unpacker, calls, faults, unpackerMX, registered>>

\* after the loop: errs when it has an entry, nil otherwise
unpackFilesInDirReturn(p) ==
    /\ batch.pc = "loop"
    /\ batch.i > Len(batch.finfos)
    /\ batch' = [batch EXCEPT !.pc = "done", !.nil = (DOMAIN batch.errs = {})]
    /\ UNCHANGED <<fs, unpacker, fr, calls, faults, unpackerMX, registered>>

\* how far the run of taken names reaches before a batch
BatchTakenChoices == {0, 2}

BatchInit ==
    /\ \E lo \in {0, 1} : \E hi \in BatchTakenChoices : fs = InitFS(lo, hi, TRUE)
    /\ unpacker = DefaultUnpackers
    /\ fr = [p \in Procs |-> IdleFrame(NoCall)]
    /\ calls = 0
    /\ faults = 0
    /\ batch = IdleBatch
    /\ unpackerMX = 0
    /\ registered = [e \in DOMAIN DefaultUnpackers |-> 1]

BatchNext ==
    \E p \in SeqProcs :
        \/ UnpackAllFiles(p)
        \/ UnpackFilesMatching(p)
        \/ unpackFilesInDirLoop(p)
        \/ unpackFilesInDirCollect(p)
        \/ unpackFilesInDirReturn(p)
        \/ UnpackFile(p)
        \/ MkDir(p)
        \/ MkDirTry(p)
        \/ Relocate(p)
        \/ RunPackerCMD(p)
        \/ RemoveArchive(p)
        \/ RemoveDirs(p)
        \/ Flatten(p)
        \/ Flatten1(p)
        \/ Flatten2(p)
        \/ Flatten3(p)
        \/ Flatten4(p)

\* one batch call by one caller
BatchSpec == BatchInit /\ [][BatchNext]_vars

----------------------------------------------------------------------------
(* Registry under concurrent callers: RegisterUnpacker step by step with   *)
(* unpackerMX, beside HasUnpacker and the lookup of UnpackFile, which read *)
(* the map without it                                                      *)

\* the extensions HasUnpacker is called with
LookupExts == {<<".", "q">>, <<".", "Z", "I", "P">>}

RegisterCall(p) ==
    /\ fr[p].pc = "idle"
    /\ \E ext \in RegExts, cmd \in RegCmds :
          Goto(p, [IdleFrame(fr[p].last) EXCEPT
                      !.pc = "reg_lock", !.op = "register", !.ext = ext, !.cmd = cmd,
                      !.fs0 = fs])
    /\ UNCHANGED <<fs, unpacker, calls, faults, batch, unpackerMX, registered>>

\* unpackerMX.Lock()
RegisterLock(p) ==
    /\ fr[p].pc = "reg_lock"
    /\ unpackerMX = 0
    /\ unpackerMX' = p
    /\ Goto(p, [fr[p] EXCEPT !.pc = "reg_check"])
    /\ UNCHANGED <<fs, unpacker, calls, faults, batch, registered>>

\* the tests of ext and cmd and the look for an existing entry
RegisterCheck(p) ==
    LET f == fr[p]
        err == RegisterResult(unpacker, f.ext, f.cmd)
    IN  /\ f.pc = "reg_check"
        /\ IF err # Nil
           THEN Goto(p, [f EXCEPT !.pc = "reg_unlock", !.err = err])
           ELSE Goto(p, [f EXCEPT !.pc = "reg_insert"])
        /\ UNCHANGED <<fs, unpacker, calls, faults, batch, unpackerMX, registered>>

\* the assignment unpacker[strings.ToLower(ext)] = cmd begins
RegisterInsert(p) ==
    /\ fr[p].pc = "reg_insert"
    /\ Goto(p, [fr[p] EXCEPT !.pc = "reg_write"])
    /\ UNCHANGED <<fs, unpacker, calls, faults, batch, unpackerMX, registered>>

\* the assignment is done
RegisterWrite(p) ==
    /\ fr[p].pc = "reg_write"
    /\ unpacker' = Insert(unpacker, fr[p].ext, fr[p].cmd)
    /\ registered' = Count(registered, fr[p].ext)
    /\ Goto(p, [fr[p] EXCEPT !.pc = "reg_unlock"])
    /\ UNCHANGED <<fs, calls, faults, batch, unpackerMX>>

\* the deferred unpackerMX.Unlock() and the return
RegisterUnlock(p) ==
    /\ fr[p].pc = "reg_unlock"
    /\ unpackerMX' = 0
    /\ Goto(p, [fr[p] EXCEPT !.pc = "done"])
    /\ UNCHANGED <<fs, unpacker, calls, faults, batch, registered>>

\* a call of HasUnpacker: one read of the map, without the mutex
CallHasUnpacker(p) ==
    /\ fr[p].pc = "idle"
    /\ \E ext \in LookupExts, u \in Views :
          \/ Goto(p, [IdleFrame(fr[p].last) EXCEPT
                         !.pc = "done", !.op = "has", !.ext = ext,
                         !.has = HasUnpacker(u, ext), !.raced = Mutating])
          \/ /\ Mutating
             /\ fr' = Fatal
    /\ UNCHANGED <<fs, unpacker, calls, faults, batch, unpackerMX, registered>>

RegistryInit ==
    /\ fs = InitFS(0, 0, TRUE)
    /\ unpacker = DefaultUnpackers
    /\ fr = [p \in Procs |-> IdleFrame(NoCall)]
    /\ calls = 0
    /\ faults = 0
    /\ batch = IdleBatch
    /\ unpackerMX = 0
    /\ registered = [e \in DOMAIN DefaultUnpackers |-> 1]

RegistryNext ==
    \E p \in Procs :
        \/ RegisterCall(p)
        \/ RegisterLock(p)
        \/ RegisterCheck(p)
        \/ RegisterInsert(p)
        \/ RegisterWrite(p)
        \/ RegisterUnlock(p)
        \/ CallHasUnpacker(p)
        \/ Call(p)
        \/ UnpackFile(p)

\* two callers, one call of the registry or of UnpackFile each
RegistrySpec == RegistryInit /\ [][RegistryNext]_vars

----------------------------------------------------------------------------
(* Two UnpackFile calls side by side on archives of one base name          *)

\* the frame of a caller that has just called UnpackFile(filename, D, ...)
CallFrame(filename, f) ==
    [IdleFrame(NoCall) EXCEPT
        !.pc = "stat", !.op = "unpack", !.filename = filename, !.dir = D, !.fs0 = f]

\* caller 1 unpacks f.zip and caller 2 f.GZ: both derive the directory f
ConcInit ==
    /\ fs = InitFS(0, 0, TRUE)
    /\ unpacker = DefaultUnpackers
    /\ fr = [p \in Procs |-> CallFrame(IF p = 1 THEN FZip ELSE FGZ, fs)]
    /\ calls = MaxCalls
    /\ faults = 0
    /\ batch = IdleBatch
    /\ unpackerMX = 0
    /\ registered = [e \in DOMAIN DefaultUnpackers |-> 1]

ConcNext ==
    \E p \in Procs :
        \/ UnpackFile(p)
        \/ MkDir(p)
        \/ MkDirTry(p)
        \/ Relocate(p)
        \/ RunPackerCMD(p)
        \/ Flatten(p)
        \/ Flatten1(p)
        \/ Flatten2(p)
        \/ Flatten3(p)
        \/ Flatten4(p)

ConcSpec == ConcInit /\ [][ConcNext]_vars

----------------------------------------------------------------------------
(* Claims *)

\* a call of UnpackFile by p has returned err = nil
Succeeded(p) == fr[p].op = "unpack" /\ fr[p].pc = "done" /\ fr[p].err = Nil

\* the entry of the history of p for a step, if the step has begun
HasStep(p, step) == \E n \in DOMAIN fr[p].trace : fr[p].trace[n].step = step
StepErr(p, step) ==
    LET n == CHOOSE m \in DOMAIN fr[p].trace : fr[p].trace[m].step = step
    IN  fr[p].trace[n].err

C2_StepOrderAndAbort ==
    \A p \in Procs :
        LET f == fr[p]
            idx(step) == CHOOSE n \in DOMAIN StepOrder : StepOrder[n] = step
            fatal(n) == f.trace[n].step # "junk" /\ f.trace[n].err # Nil
        IN  f.op = "unpack" =>
              /\ \A m, n \in DOMAIN f.trace :
                    m < n => \/ idx(f.trace[m].step) < idx(f.trace[n].step)
                             \/ f.trace[m].step = "junk" /\ f.trace[n].step = "junk"
              /\ \A n \in DOMAIN f.trace :
                    fatal(n) => /\ n = Len(f.trace)
                                /\ f.pc = "done"
                                /\ f.err = f.trace[n].err
              /\ (f.pc = "done" /\ f.err # Nil /\ f.trace # <<>>)
                    => fatal(Len(f.trace))

\* C2 witness: the command failed after allocate and relocate, and the call
\* returned its error
C2_Witness ==
    /\ fr[1].pc = "done"
    /\ Len(fr[1].trace) = 3
    /\ fr[1].trace[3].step = "run"
    /\ fr[1].err.kind = "RunError"
    /\ fr[1].remove
    /\ Len(fr[1].rmDirs) > 0

\* the call of p names an existing regular file whose extension has no
\* registered command
UnknownExtensionCall(p) ==
    LET f == fr[p]
    IN  /\ f.op = "unpack"
        /\ IsFile(f.fs0, Join(f.dir, f.filename))
        /\ Ext(f.filename) # <<>>
        /\ ToLower(Ext(f.filename)) \notin DOMAIN unpacker

\* C3: a call on an existing regular file whose extension has no registered
\* command fails with UnknownPacker and leaves the file system as it was: no
\* directory created, the archive not moved, no command run.
C3_UnknownExtensionNoMutation ==
    \A p \in Procs :
        UnknownExtensionCall(p) =>
            /\ fs = fr[p].fs0
            /\ fr[p].trace = <<>>
            /\ fr[p].pc \in {"stat", "done"}
            /\ fr[p].pc = "done" =>
                  fr[p].err = Err("UnknownPackerError", << ToLower(Ext(fr[p].filename)) >>)

\* C3 witness: the call on f.q has returned
C3_Witness ==
    /\ UnknownExtensionCall(1)
    /\ fr[1].pc = "done"
    /\ fr[1].filename = FQ

\* the command of the call of p has failed
CommandFailed(p) == HasStep(p, "run") /\ StepErr(p, "run") # Nil

\* C4: if the command fails after the archive was relocated, then at return
\* the archive is inside the newly created directory, the original path no
\* longer holds it, it was not deleted and nothing was flattened; a second
\* call on the original path fails with NotFound and changes nothing.
C4_CommandFailureKeepsArchive ==
    \A p \in Procs :
        LET f == fr[p]
            orig == Join(f.dir, f.filename)
            moved == Join(f.createdDir, f.filename)
        IN  /\ (f.op = "unpack" /\ f.pc = "done" /\ CommandFailed(p)) =>
                  /\ f.err = StepErr(p, "run")
                  /\ f.err.kind = "RunError"
                  /\ ~Exists(f.fs0, f.createdDir)
                  /\ IsDir(fs, f.createdDir)
                  /\ IsFile(fs, moved)
                  /\ fs[moved] = f.fs0[orig]
                  /\ ~Exists(fs, orig)
                  /\ ~HasStep(p, "delete")
                  /\ ~HasStep(p, "flatten")
            /\ (f.op = "unpack" /\ f.last.op = "unpack" /\ f.last.filename = f.filename
                  /\ f.last.err.kind = "RunError") =>
                  /\ fs = f.fs0
                  /\ f.trace = <<>>
                  /\ f.pc \in {"stat", "done"}
                  /\ f.pc = "done" => f.err = Err("NotExist", orig)

\* C4 witness: the second call on a path whose first call failed in the
\* command has returned
C4_Witness ==
    /\ fr[1].op = "unpack"
    /\ fr[1].pc = "done"
    /\ fr[1].last.err.kind = "RunError"
    /\ fr[1].last.filename = fr[1].filename
    /\ fr[1].err.kind = "NotExist"
    /\ IsFile(fs, Join(fr[1].last.createdDir, fr[1].filename))

\* the content of the archive of the call of p is somewhere in f
ArchiveHeld(f, p) ==
    \E q \in DOMAIN f : f[q] = fr[p].fs0[Join(fr[p].dir, fr[p].filename)]

\* the delete step is begun only with remove set after a successful command,
\* and its failure ends the call
C5_DeleteOnlyOnRequest ==
    \A p \in Procs :
        fr[p].op = "unpack" =>
            /\ HasStep(p, "delete") =>
                  /\ fr[p].remove
                  /\ HasStep(p, "run")
                  /\ StepErr(p, "run") = Nil
            /\ (HasStep(p, "delete") /\ StepErr(p, "delete") # Nil) =>
                  /\ fr[p].pc = "done"
                  /\ fr[p].err = StepErr(p, "delete")
                  /\ ~HasStep(p, "junk")
                  /\ ~HasStep(p, "flatten")

\* outside the command, the archive content leaves the file system only in
\* the delete step
C5_ArchiveVanishesOnlyInDelete ==
    \A p \in Procs :
        (/\ fr[p].op = "unpack"
         /\ fr[p].pc \notin {"idle", "stat", "done", "run"}
         /\ ArchiveHeld(fs, p)
         /\ ~ArchiveHeld(fs', p))
        => /\ fr[p].pc = "remove"
           /\ fr[p].remove
           /\ ~CommandFailed(p)

\* C5: the orchestrator deletes the relocated archive only when remove is set
\* and only after the command returned success; when the command fails or
\* remove is unset no step of the orchestrator makes the archive vanish; a
\* failed deletion is returned without junk removal or flatten.
C5_ArchiveDeletion ==
    /\ [] C5_DeleteOnlyOnRequest
    /\ [][C5_ArchiveVanishesOnlyInDelete]_vars

\* C5 witness: the deletion of the archive was attempted and failed
C5_Witness ==
    /\ fr[1].op = "unpack"
    /\ fr[1].pc = "done"
    /\ HasStep(1, "delete")
    /\ StepErr(1, "delete") # Nil
    /\ IsFile(fs, Join(fr[1].createdDir, fr[1].filename))

\* the allocator of the call of p has failed with MkDirError
AllocationExhausted(p) ==
    HasStep(p, "allocate") /\ StepErr(p, "allocate").kind = "MkDirError"

\* C6: the allocator tries parentDir/name, then parentDir/name-1, ...,
\* parentDir/name-10 in that order, returns the first path whose creation
\* succeeds, makes at most 11 attempts, and fails with MkDirError exactly
\* when all 11 attempts fail.
C6_AllocatorProbeSequence ==
    \A p \in Procs :
        LET f == fr[p]
            t == f.tried
            allFailed == Len(t) = 11 /\ \A n \in DOMAIN t : ~t[n].ok
        IN  f.op = "unpack" =>
              /\ Len(t) <= 11
              /\ \A n \in DOMAIN t : t[n].path = Candidate(n - 1)
              /\ \A n \in DOMAIN t : t[n].ok => n = Len(t) /\ f.createdDir = t[n].path
              /\ f.createdDir # <<>> => t # <<>> /\ t[Len(t)].ok
              /\ AllocationExhausted(p) => allFailed /\ f.pc = "done" /\ f.err.kind = "MkDirError"
              /\ allFailed => f.pc = "mkdirtry" \/ AllocationExhausted(p)

\* C6 witness: all eleven names were tried and the call returned MkDirError
C6_Witness ==
    /\ fr[1].pc = "done"
    /\ fr[1].err.kind = "MkDirError"
    /\ Len(fr[1].tried) = 11

\* C7: a path the allocator returns did not exist before the call and is a
\* directory at return; the allocator changes nothing that existed before,
\* and when it fails with MkDirError it has created no directory.
C7_AllocatedDirectoryIsNew ==
    \A p \in Procs :
        LET f == fr[p]
        IN  f.op = "unpack" =>
              /\ f.pc \in {"mkdir", "mkdirtry"} => fs = f.fs0
              /\ AllocationExhausted(p) => fs = f.fs0
              /\ f.createdDir # <<>> => ~Exists(f.fs0, f.createdDir)
              /\ f.pc = "rename" =>
                    /\ IsDir(fs, f.createdDir)
                    /\ Entries(fs, f.createdDir) = {}
                    /\ DOMAIN fs = DOMAIN f.fs0 \cup {f.createdDir}
                    /\ \A q \in DOMAIN f.fs0 : fs[q] = f.fs0[q]

\* C7 witness: the allocator returned name-2 past two directories that
\* existed and were not empty
C7_Witness ==
    /\ fr[1].pc = "rename"
    /\ fr[1].createdDir = Candidate(2)
    /\ Entries(fr[1].fs0, Candidate(0)) # {}
    /\ Entries(fr[1].fs0, Candidate(1)) # {}

\* flatten of the call of p has listed the directory
Flattened(p) ==
    /\ fr[p].op = "unpack"
    /\ HasStep(p, "flatten")
    /\ IsDir(fr[p].fsF, fr[p].createdDir)

NonArchiveEntries(p) ==
    {q \in Entries(fr[p].fsF, fr[p].createdDir) :
        ~(IsFile(fr[p].fsF, q) /\ Base(q) = fr[p].filename)}

\* zero entries, two or more entries, or exactly one entry that is no directory
NoOpCase(p) ==
    \/ Cardinality(NonArchiveEntries(p)) # 1
    \/ \E q \in NonArchiveEntries(p) : ~IsDir(fr[p].fsF, q)

\* C9: with zero entries, two or more entries, or exactly one non-directory
\* entry beside the archive, flatten returns success and leaves the layout
\* unchanged, creates no temporary sibling, and a further flatten is a no-op.
C9_FlattenNoOp ==
    \A p \in Procs :
        (Flattened(p) /\ NoOpCase(p)) =>
            /\ fr[p].pc = "done"
            /\ fr[p].err = Nil
            /\ fr[p].d = <<>>
            /\ fs = fr[p].fsF
            /\ ~FlattenTriggers(fs, fr[p].filename, fr[p].createdDir)

\* C9 witness: flatten returned from a directory that holds a directory and
\* a file beside the archive
C9_Witness ==
    /\ Flattened(1)
    /\ NoOpCase(1)
    /\ fr[1].pc = "done"
    /\ Cardinality(NonArchiveEntries(1)) = 2
    /\ \E q \in NonArchiveEntries(1) : IsDir(fs, q)
    /\ IsFile(fs, Join(fr[1].createdDir, fr[1].filename))

\* the directory of p held one subdirectory and nothing else at flatten
OnlyInner(p) ==
    \E q \in DOMAIN fr[p].fsF :
        /\ Entries(fr[p].fsF, fr[p].createdDir) = {q}
        /\ IsDir(fr[p].fsF, q)

\* C10: when D holds only one subdirectory inner, after a successful flatten
\* the entries of D are those inner had, the wrapper level is gone, D is at
\* its path and no temporary sibling remains.
C10_FlattenCollapses ==
    \A p \in Procs :
        LET f == fr[p]
            inner == CHOOSE q \in Entries(f.fsF, f.createdDir) : TRUE
        IN  (Flattened(p) /\ OnlyInner(p) /\ f.pc = "done" /\ f.err = Nil) =>
              /\ f.d # <<>>
              /\ IsDir(fs, f.createdDir)
              /\ SubTree(fs, f.createdDir) = SubTree(f.fsF, inner)
              /\ Exists(fs, inner) <=> Exists(f.fsF, Join(inner, Base(inner)))
              /\ ~Exists(fs, f.d)

\* C10 witness: a directory that held only inner with two files holds the
\* two files
C10_Witness ==
    /\ Flattened(1)
    /\ OnlyInner(1)
    /\ fr[1].pc = "done"
    /\ fr[1].err = Nil
    /\ Cardinality(Entries(fs, fr[1].createdDir)) = 2
    /\ \A q \in Entries(fs, fr[1].createdDir) : IsFile(fs, q)

\* the directory of p held one subdirectory and the archive file at flatten
InnerAndArchive(p) ==
    LET f == fr[p]
        archive == Join(f.createdDir, f.filename)
    IN  /\ IsFile(f.fsF, archive)
        /\ \E q \in Entries(f.fsF, f.createdDir) :
              /\ IsDir(f.fsF, q)
              /\ Entries(f.fsF, f.createdDir) = {q, archive}

\* C11: when D holds exactly a subdirectory inner and the archive file, after
\* a successful flatten D holds every entry inner had, unchanged, and the
\* archive file at D/archiveFileName, whatever inner held.
C11_FlattenKeepsInnerAndArchive ==
    \A p \in Procs :
        LET f == fr[p]
            archive == Join(f.createdDir, f.filename)
            inner == CHOOSE q \in Entries(f.fsF, f.createdDir) : IsDir(f.fsF, q)
            had == SubTree(f.fsF, inner)
        IN  (Flattened(p) /\ InnerAndArchive(p) /\ f.pc = "done" /\ f.err = Nil) =>
              /\ \A r \in DOMAIN had :
                    /\ Exists(fs, f.createdDir \o r)
                    /\ fs[f.createdDir \o r] = had[r]
              /\ IsFile(fs, archive)
              /\ fs[archive] = f.fsF[archive]

\* C12: the temporary sibling path phase 1 of flatten renames the directory
\* to is never a path that exists, in particular never a directory name-k of
\* the allocator, so phase 1 neither replaces nor fails on an existing entry.
C12_TempPathIsFresh ==
    \A p \in Procs :
        fr[p].pc = "fl1" => ~Exists(fs, fr[p].d)

\* the entries of the history of p for the junk names whose deletion failed
JunkFailures(p) ==
    {n \in DOMAIN fr[p].trace : fr[p].trace[n].step = "junk" /\ fr[p].trace[n].err # Nil}

\* the junk names removeDirs has gone through
JunkSteps(p) == {n \in DOMAIN fr[p].trace : fr[p].trace[n].step = "junk"}

\* C13: a failure to delete a junk directory is logged and is not propagated:
\* the call does not return that error, the remaining junk names are still
\* processed and flatten is invoked afterwards.
C13_JunkFailureLoggedNotPropagated ==
    \A p \in Procs : \A n \in JunkFailures(p) :
        LET f == fr[p]
        IN  /\ \E m \in DOMAIN f.log : f.log[m].msg = f.trace[n].err
            /\ f.pc = "done" => f.err # f.trace[n].err
            /\ f.pc # "rmdirs" => Cardinality(JunkSteps(p)) = Len(f.rmDirs)
            /\ f.pc = "done" => HasStep(p, "flatten")

\* C14: after a successful UnpackFile with RemoveDirectories(names) in which
\* every deletion succeeded, no directory directly inside the destination
\* directory has a name in names, whatever layout the command extracted.
C14_NoJunkDirectoryLeft ==
    \A p \in Procs :
        (Succeeded(p) /\ JunkFailures(p) = {}) =>
            \A n \in DOMAIN fr[p].rmDirs :
                ~IsDir(fs, Join(fr[p].createdDir, fr[p].rmDirs[n]))

\* C15: after a successful unpack of name.ext without removal the archive
\* file is at <destination>/name.ext, flattened or not; with removal it is
\* neither at its original path nor anywhere in the destination directory.
C15_ArchivePresence ==
    \A p \in Procs :
        LET f == fr[p]
            orig == Join(f.dir, f.filename)
            dest == Join(f.createdDir, f.filename)
            archive == f.fs0[orig]
        IN  Succeeded(p) =>
              IF f.remove
              THEN /\ ~Exists(fs, orig)
                   /\ \A q \in Tree(fs, f.createdDir) : fs[q] # archive
              ELSE /\ IsFile(fs, dest)
                   /\ fs[dest] = archive

\* the files of the listing a batch call has to unpack, taken from the
\* directory as it was when the call began
BatchExpected(b) ==
    {q \in Entries(b.fs0, b.dir) :
        /\ IsFile(b.fs0, q)
        /\ IF b.matching THEN MatchString(b.pattern, Base(q))
           ELSE ToLower(Ext(Base(q))) \in DOMAIN DefaultUnpackers}

\* the paths c.UnpackFile was called with, and those of them that failed
BatchCalled(b) == {Join(b.dir, b.called[k].name) : k \in DOMAIN b.called}
BatchFailed(b) ==
    {Join(b.dir, b.called[k].name) : k \in {j \in DOMAIN b.called : b.called[j].err # Nil}}

\* the directory was listed: it exists and the pattern, if any, compiled
BatchListed(b) ==
    /\ IsDir(b.fs0, b.dir)
    /\ b.matching => PatternCompiles(b.pattern)

\* single-file unpack ran once for each file of the initial listing that
\* passes the filter, and the mapping holds the failed files with their errors
BatchOutcome(b) ==
    /\ BatchCalled(b) = BatchExpected(b)
    /\ \A j, k \in DOMAIN b.called : b.called[j].name = b.called[k].name => j = k
    /\ DOMAIN b.errs = BatchFailed(b)
    /\ \A k \in DOMAIN b.called :
          b.called[k].err # Nil => b.errs[Join(b.dir, b.called[k].name)] = b.called[k].err
    /\ b.nil <=> BatchFailed(b) = {}

\* C16 as stated: whenever unpackAll or unpackMatching returns, single-file
\* unpack has run exactly once for every file of the initial listing that
\* passes the filter, and the keys of the mapping are exactly the failed files.
C16_BatchKeysAreFailedFiles ==
    batch.pc = "done" => BatchOutcome(batch)

\* C16 amended: the same, for a call whose directory could be listed and
\* whose pattern compiled; otherwise no file is unpacked and the mapping has
\* the one entry of the listing or compilation error, under the key dir or
\* pattern.
C16_BatchIsolation ==
    batch.pc = "done" =>
        IF BatchListed(batch) THEN BatchOutcome(batch)
        ELSE /\ batch.called = <<>>
             /\ ~batch.nil
             /\ DOMAIN batch.errs =
                   {IF batch.matching /\ ~PatternCompiles(batch.pattern)
                    THEN << batch.pattern >> ELSE batch.dir}

\* C16 witness: of three matching files the second failed, the third was
\* still unpacked and the mapping has the one entry of the second
C16_Witness ==
    /\ batch.pc = "done"
    /\ Len(batch.called) = 3
    /\ batch.called[1].err = Nil
    /\ batch.called[2].err # Nil
    /\ batch.called[3].err = Nil
    /\ DOMAIN batch.errs = {Join(batch.dir, batch.called[2].name)}

\* a call of RegisterUnpacker by p has returned
Registered(p) == fr[p].op = "register" /\ fr[p].pc = "done"

\* ext begins with a dot and cmd has the placeholder
ValidRegistration(ext, cmd) == ext # <<>> /\ ext[1] = "." /\ HasPlaceHolder(cmd)

\* the number of successful registrations of the case-folded ext so far
Registrations(ext) ==
    IF ToLower(ext) \in DOMAIN registered THEN registered[ToLower(ext)] ELSE 0

\* a valid register call returning after an earlier successful registration
\* of its case-folded ext returns UnpackerRegisteredError
C17_DuplicateIsRejected ==
    \A p \in Procs :
        (/\ ~Registered(p)
         /\ Registered(p)'
         /\ ValidRegistration(fr'[p].ext, fr'[p].cmd)
         /\ Registrations(fr'[p].ext) >= 1) =>
            fr'[p].err = Err("UnpackerRegisteredError", << ToLower(fr'[p].ext) >>)

\* no case-folded extension has two successful registrations
C17_AtMostOnce == \A e \in DOMAIN registered : registered[e] <= 1

\* C17: a valid register(ext, cmd) fails with AlreadyRegistered whenever an
\* earlier successful call (those of init() included) registered an extension
\* equal to ext without regard to case, so each case-folded extension is
\* successfully registered at most once.
C17_CaseInsensitiveDuplicates ==
    []C17_AtMostOnce /\ [][C17_DuplicateIsRejected]_vars

\* C17 witness: .Q is rejected after a call of this run registered it as .q
\* or .Q
C17_Witness ==
    /\ Registered(1)
    /\ fr[1].ext = <<".", "Q">>
    /\ HasPlaceHolder(fr[1].cmd)
    /\ fr[1].err = Err("UnpackerRegisteredError", << <<".", "q">> >>)
    /\ registered[<<".", "q">>] = 1

\* C18: register(ext, cmd) with a cmd that lacks the placeholder fails with
\* MissingPlaceholder for every ext, an empty one and one without the
\* leading dot included.
C18_MissingPlaceholderForEveryExt ==
    \A p \in Procs :
        (Registered(p) /\ ~HasPlaceHolder(fr[p].cmd)) =>
            fr[p].err.kind = "MissingPlaceholder"

\* the steps of RegisterUnpacker between Lock and Unlock
Locked == {"reg_check", "reg_insert", "reg_write", "reg_unlock"}

\* the check and the insertion of one call do not interleave with another's
RegisterExcludes ==
    \A p, q \in Procs : (p # q /\ fr[p].pc \in Locked) => fr[q].pc \notin Locked

\* of calls that register the same new case-folded extension side by side,
\* one succeeds and the others return UnpackerRegisteredError
OneRegistrationWins ==
    \A p, q \in Procs :
        (/\ p # q
         /\ Registered(p) /\ Registered(q)
         /\ ValidRegistration(fr[p].ext, fr[p].cmd)
         /\ ValidRegistration(fr[q].ext, fr[q].cmd)
         /\ ToLower(fr[p].ext) = ToLower(fr[q].ext)
         /\ ToLower(fr[p].ext) \notin DOMAIN DefaultUnpackers) =>
            LET dup == Err("UnpackerRegisteredError", << ToLower(fr[p].ext) >>)
            IN  \/ fr[p].err = Nil /\ fr[q].err = dup
                \/ fr[q].err = Nil /\ fr[p].err = dup

\* C19: under any interleaving the check and the insertion of one register
\* call are not interleaved with another's, of concurrent registrations of
\* one case-folded extension exactly one succeeds, and no lookup (HasUnpacker,
\* the lookup of UnpackFile) reads the registry while a registration is
\* mutating it.
C19_RegistryMutualExclusion ==
    /\ RegisterExcludes
    /\ OneRegistrationWins
    /\ \A p \in Procs : ~fr[p].raced /\ fr[p].pc # "fatal"

\* p has been allocated its directory and has not returned
Owns(p) == fr[p].op = "unpack" /\ fr[p].createdDir # <<>> /\ fr[p].pc # "done"

\* what is at or below the path
At(f, path) == Restrict(f, Tree(f, path))

\* two operations are not allocated the same directory
C20_DistinctDestinations ==
    \A p, q \in Procs :
        (p # q /\ fr[p].createdDir # <<>> /\ fr[q].createdDir # <<>>) =>
            fr[p].createdDir # fr[q].createdDir

\* a step of another operation leaves the directory path of p as it is
C20_NoForeignStep ==
    \A p, q \in Procs :
        (p # q /\ Owns(p) /\ fr'[p] = fr[p] /\ fr'[q] # fr[q]) =>
            At(fs', fr[p].createdDir) = At(fs, fr[p].createdDir)

\* C20: two interleaved unpack operations of one base name in one directory
\* are allocated different directories, and from its allocation until it
\* returns no step of the other operation (probing, relocation, the renames
\* of flatten) creates, replaces or writes into an operation's directory path.
C20_ExclusiveDestination ==
    []C20_DistinctDestinations /\ [][C20_NoForeignStep]_vars

\* _flatten has been entered by the call of p: the temporary path is chosen
InFlatten(p) == fr[p].op = "unpack" /\ fr[p].d # <<>>

\* what the wrapper directory held when flatten began, by path relative to it
WrapperContent(p) == SubTree(fr[p].fsF, Join(fr[p].createdDir, fr[p].sub))

\* an entry of the wrapper is, unchanged, below the directory or below the
\* temporary sibling
WrapperEntryKept(p, r) ==
    \E base \in {Join(fr[p].createdDir, fr[p].sub), Join(fr[p].d, fr[p].sub),
                 fr[p].createdDir} :
        /\ Exists(fs, base \o r)
        /\ fs[base \o r] = WrapperContent(p)[r]

\* the archive file, if it was in the directory, is in it or in the sibling
ArchiveKept(p) ==
    LET archive == Join(fr[p].createdDir, fr[p].filename)
    IN  IsFile(fr[p].fsF, archive) =>
            \E base \in {fr[p].createdDir, fr[p].d} :
                /\ IsFile(fs, Join(base, fr[p].filename))
                /\ fs[Join(base, fr[p].filename)] = fr[p].fsF[archive]

\* nothing that existed outside the directory when flatten began is gone
OutsideKept(p) ==
    \A q \in DOMAIN fr[p].fsF \ Tree(fr[p].fsF, fr[p].createdDir) : Exists(fs, q)

\* C21: in every state during the renames of flatten and in the state a
\* failed rename or removal leaves, every entry that was inside the directory
\* (the wrapper's contents, the archive file) exists unchanged below the
\* directory or the temporary sibling; flatten deletes nothing but the
\* emptied temporary directory, and attempts that only when it has no entries.
C21_FlattenLosesNothing ==
    \A p \in Procs :
        InFlatten(p) =>
            /\ \A r \in DOMAIN WrapperContent(p) : WrapperEntryKept(p, r)
            /\ ArchiveKept(p)
            /\ OutsideKept(p)
            /\ fr[p].pc = "fl4" => Entries(fs, fr[p].d) = {}

\* a register call that returns an error leaves the registry as it was; one
\* that returns nil adds the entry of its case-folded ext with its cmd and
\* changes no other entry
C22_RegisterFrame ==
    \A p \in Procs :
        (~Registered(p) /\ Registered(p)') =>
            LET e == ToLower(fr'[p].ext)
            IN  IF fr'[p].err # Nil
                THEN unpacker' = unpacker
                ELSE /\ e \notin DOMAIN unpacker
                     /\ DOMAIN unpacker' = DOMAIN unpacker \cup {e}
                     /\ unpacker'[e] = fr'[p].cmd
                     /\ \A x \in DOMAIN unpacker : unpacker'[x] = unpacker[x]

\* no step removes an entry or changes its command
C22_EntriesStay ==
    \A e \in DOMAIN unpacker : e \in DOMAIN unpacker' /\ unpacker'[e] = unpacker[e]

\* the lookup of UnpackFile returns the entry of the case-folded extension
C22_LookupStep ==
    \A p \in Procs :
        (fr[p].pc = "stat" /\ fr'[p].pc = "mkdir") =>
            /\ ToLower(Ext(fr[p].filename)) \in DOMAIN unpacker
            /\ fr'[p].cmd = unpacker[ToLower(Ext(fr[p].filename))]

\* the entries are those of the successful registrations, init() included
C22_EntriesAreRegistrations ==
    /\ DOMAIN unpacker = {e \in DOMAIN registered : registered[e] >= 1}
    /\ \A e \in DOMAIN DefaultUnpackers : unpacker[e] = DefaultUnpackers[e]

\* C22: a register call that fails leaves the registry unchanged, a
\* successful one adds exactly one entry and changes no other; so once an
\* extension is registered every later lookup of it, in any letter case,
\* returns the command of the first successful registration.
C22_RegistryFrame ==
    /\ []C22_EntriesAreRegistrations
    /\ [][C22_RegisterFrame /\ C22_EntriesStay /\ C22_LookupStep]_vars

\* C22 witness: after a call registered .q or .Q, and maybe others failed,
\* UnpackFile of f.q has looked up the command of that registration
C22_Witness ==
    /\ fr[1].op = "unpack"
    /\ fr[1].pc = "mkdir"
    /\ fr[1].filename = FQ
    /\ fr[1].cmd = << <<"x">>, PlaceHolder >>
    /\ registered[<<".", "q">>] = 1

====
